---------------------------- MODULE Spec2Model ----------------------------
(***************************************************************************)
(* The vote-integrity core of nss_elections_app.py: the SQLite tables      *)
(* volunteers, candidates and votes, the functions that write them, and    *)
(* the Streamlit volunteer page that calls vote_for_candidate.             *)
(*                                                                         *)
(* Every function opens its own connection (get_db_connection).  A         *)
(* connection reads the committed tables; its first INSERT, UPDATE or      *)
(* DELETE opens a transaction (Python's sqlite3 issues BEGIN) and takes    *)
(* the database's single write lock, and its changes stay private until    *)
(* conn.commit().  A statement that needs the write lock while another     *)
(* connection holds it waits (sqlite3.connect's busy timeout); that wait   *)
(* is modelled by the action being disabled until the lock is free.        *)
(* No PRAGMA foreign_keys is issued, so SQLite does not enforce the        *)
(* FOREIGN KEY clauses of the votes table; PRIMARY KEY clauses are         *)
(* enforced.                                                               *)
(*                                                                         *)
(* Columns that no decision reads (name, year, branch, phone, photo_path)  *)
(* are left out of the rows.                                               *)
(***************************************************************************)
EXTENDS Naturals, Sequences, FiniteSets, Bags

VARIABLES
    volunteers,   \* committed rows of table volunteers
    candidates,   \* committed rows of table candidates
    votes,        \* committed rows of table votes, a bag: only the
                  \* primary key keeps a row from being stored twice
    nextId,       \* next AUTOINCREMENT value of candidates.id
    writer,       \* the connection that holds the write lock, or NoOne
    tx,           \* the writer's uncommitted view of the tables, or NoTx
    session,      \* st.session_state of each browser session
    pc,           \* where each session's script run stands
    args,         \* the arguments of the session's vote_for_candidate call
    adminPc,      \* where the administrator's delete_volunteer stands
    adminArg,     \* the argument of that delete_volunteer
    returned,     \* what the step just taken returned, and to whom
    accepted      \* history: the (student_id, position) pairs that got True
                  \* since the volunteer's votes were last deleted

vars == <<volunteers, candidates, votes, nextId, writer, tx, session, pc,
          args, adminPc, adminArg, returned, accepted>>

-----------------------------------------------------------------------------
(* Bounds of the model *)

MaxCandidates == 1   \* add_candidate is called at most this often
MaxTally == 1        \* no vote is started for a candidate with this tally

Sessions == {"s1", "s2"}
NoOne == "nobody"
Admin == "admin"
NoTx == [none |-> TRUE]
NoArgs == [none |-> TRUE]
NoPosition == "NULL"
NoReturn == [by |-> NoOne, fn |-> "none", result |-> "none"]
Returned(by, fn, result) == [by |-> by, fn |-> fn, result |-> result]

\* Two of the eleven entries of the list `positions`.
positions == {"President", "Secretary"}

\* Identifiers as typed into the text inputs: strings, as sequences of
\* characters.
InputIds == { <<"a">>, <<" ", "A">>, <<"b">> }

-----------------------------------------------------------------------------
(* str.lower() and str.strip() *)

LowerChar(ch) ==
    CASE ch = "A" -> "a"
      [] ch = "B" -> "b"
      [] OTHER -> ch

lower(str) == [i \in 1..Len(str) |-> LowerChar(str[i])]

IsSpace(ch) == ch = " "

RECURSIVE lstrip(_)
lstrip(str) ==
    IF str # <<>> /\ IsSpace(Head(str)) THEN lstrip(Tail(str)) ELSE str

RECURSIVE rstrip(_)
rstrip(str) ==
    IF str # <<>> /\ IsSpace(str[Len(str)])
    THEN rstrip(SubSeq(str, 1, Len(str) - 1))
    ELSE str

strip(str) == rstrip(lstrip(str))

\* Variant: the identifier is trimmed and not lower-cased.
normalize_without_lower(str) == strip(str)

\* student_id.lower().strip()
normalize(str) == strip(lower(str))


-----------------------------------------------------------------------------
(* Rows and SQL statements *)

NormIds == { normalize(raw) : raw \in InputIds }

\* INSERT INTO volunteers (student_id, ...): voted takes its DEFAULT 0.
VolunteerRow(sid) == [student_id |-> sid, voted |-> 0]

\* INSERT INTO candidates (...): votes takes its DEFAULT 0.
CandidateRow(id, pos1, pos2) ==
    [id |-> id, position1 |-> pos1, position2 |-> pos2, votes |-> 0]

VoteRow(sid, position, cid) ==
    [student_id |-> sid, position |-> position, candidate_id |-> cid]

\* Variant: no check before the INSERT, as in the two-argument
\* vote_for_candidate that the three-argument one replaces.
select_vote_unchecked(vs, sid, position) == {}

\* SELECT 1 FROM votes WHERE student_id = ? AND position = ?
select_vote(vs, sid, position) ==
    { v \in BagToSet(vs) : v.student_id = sid /\ v.position = position }

\* Variant: the votes table declared without its primary key.
votes_key_undeclared(vs, sid, position) == TRUE

\* PRIMARY KEY (student_id, position) of votes: TRUE when the key is free.
votes_key_free(vs, sid, position) ==
    ~ \E v \in BagToSet(vs) : v.student_id = sid /\ v.position = position

\* student_id TEXT PRIMARY KEY of volunteers: TRUE when the key is free.
volunteers_key_free(vols, sid) ==
    ~ \E v \in vols : v.student_id = sid

\* UPDATE candidates SET votes = votes + 1 WHERE id = ?
increment_votes(cs, cid) ==
    { IF c.id = cid THEN [c EXCEPT !.votes = @ + 1] ELSE c : c \in cs }

\* Variant: delete_volunteer without its DELETE FROM votes.
delete_votes_of_skipped(vs, sid) == vs

\* DELETE FROM votes WHERE student_id = ?
delete_votes_of(vs, sid) ==
    [v \in { r \in BagToSet(vs) : r.student_id # sid } |-> vs[v]]

\* DELETE FROM volunteers WHERE student_id = ?
delete_volunteer_row(vols, sid) == { v \in vols : v.student_id # sid }

\* DELETE FROM candidates WHERE id = ?
delete_candidate_row(cs, cid) == { c \in cs : c.id # cid }

\* SELECT student_id, name, voted FROM volunteers WHERE student_id = ?
get_volunteer(raw) ==
    { v \in volunteers : v.student_id = normalize(raw) }

\* SELECT id, name, photo_path FROM candidates WHERE position1 = ?
candidates_for_pos(position) ==
    { c \in candidates : c.position1 = position }

-----------------------------------------------------------------------------
(* The state after init_db() on an empty database, no browser session yet *)

LoggedOut == [volunteer_logged_in |-> FALSE, volunteer_info |-> NoArgs]

InitSessions ==
    /\ writer = NoOne
    /\ tx = NoTx
    /\ session = [s \in Sessions |-> LoggedOut]
    /\ pc = [s \in Sessions |-> "idle"]
    /\ args = [s \in Sessions |-> NoArgs]
    /\ adminPc = "idle"
    /\ adminArg = NoArgs
    /\ returned = NoReturn
    /\ accepted = {}

Init ==
    /\ volunteers = {}
    /\ candidates = {}
    /\ votes = EmptyBag
    /\ nextId = 1
    /\ InitSessions

-----------------------------------------------------------------------------
(* Volunteer page *)

dbVars == <<volunteers, candidates, votes, nextId, writer, tx>>
adminVars == <<adminPc, adminArg>>

\* Login button: get_volunteer, then the session keeps the row.
volunteer_login(s, raw) ==
    /\ pc[s] = "idle"
    /\ ~ session[s].volunteer_logged_in
    /\ session' =
         IF get_volunteer(raw) = {} THEN session
         ELSE [session EXCEPT ![s] =
                 [volunteer_logged_in |-> TRUE,
                  volunteer_info |-> CHOOSE v \in get_volunteer(raw) : TRUE]]
    /\ returned' = NoReturn
    /\ UNCHANGED <<dbVars, adminVars, pc, args, accepted>>

\* Logout button.
volunteer_logout(s) ==
    /\ pc[s] = "idle"
    /\ session[s].volunteer_logged_in
    /\ session' = [session EXCEPT ![s] = LoggedOut]
    /\ returned' = NoReturn
    /\ UNCHANGED <<dbVars, adminVars, pc, args, accepted>>

\* `if voted: ... else:` the ballot is drawn only while the cached flag is 0.
ballot_shown(s) ==
    /\ session[s].volunteer_logged_in
    /\ session[s].volunteer_info.voted = 0

-----------------------------------------------------------------------------
(* vote_for_candidate(candidate_id, student_id, position), as the page      *)
(* calls it, statement by statement.  This is the second definition of     *)
(* that name in the file; it replaces the two-argument one, so nothing     *)
(* ever sets volunteers.voted.                                             *)

Return(s, result) ==
    /\ pc' = [pc EXCEPT ![s] = "idle"]
    /\ args' = [args EXCEPT ![s] = NoArgs]
    /\ returned' = Returned(s, "vote_for_candidate", result)

\* "Vote for <cname>" button of a candidate listed for the selected
\* position, and the call up to its SELECT: `if c.fetchone(): return False`.
vote_select(s, position, c) ==
    /\ pc[s] = "idle"
    /\ ballot_shown(s)
    /\ c \in candidates_for_pos(position)
    /\ c.votes < MaxTally
    /\ LET sid == session[s].volunteer_info.student_id IN
         IF select_vote(votes, normalize(sid), position) # {}
         THEN Return(s, "False")
         ELSE /\ pc' = [pc EXCEPT ![s] = "insert"]
              /\ args' = [args EXCEPT ![s] =
                            [candidate_id |-> c.id,
                             student_id |-> sid,
                             position |-> position]]
              /\ returned' = NoReturn
    /\ UNCHANGED <<dbVars, adminVars, session, accepted>>

\* The INSERT INTO votes: takes the write lock; sqlite3.IntegrityError, which
\* nothing catches, when the primary key is taken.
vote_insert(s) ==
    /\ pc[s] = "insert"
    /\ writer = NoOne
    /\ IF votes_key_free(votes, normalize(args[s].student_id), args[s].position)
       THEN /\ writer' = s
            /\ tx' = [volunteers |-> volunteers,
                      candidates |-> candidates,
                      votes |-> votes (+)
                                 SetToBag({VoteRow(normalize(args[s].student_id),
                                                   args[s].position,
                                                   args[s].candidate_id)})]
            /\ pc' = [pc EXCEPT ![s] = "update"]
            /\ returned' = NoReturn
            /\ UNCHANGED args
       ELSE /\ Return(s, "IntegrityError")
            /\ UNCHANGED <<writer, tx>>
    /\ UNCHANGED <<volunteers, candidates, votes, nextId, adminVars, session,
                   accepted>>

\* The UPDATE candidates SET votes = votes + 1, conn.commit(), return True,
\* and the page's update of volunteer_info.
vote_update(s) ==
    /\ pc[s] = "update"
    /\ writer = s
    /\ volunteers' = tx.volunteers
    /\ candidates' = increment_votes(tx.candidates, args[s].candidate_id)
    /\ votes' = tx.votes
    /\ writer' = NoOne
    /\ tx' = NoTx
    /\ Return(s, "True")
    /\ session' = [session EXCEPT ![s].volunteer_info.voted = 1]
    /\ accepted' = accepted \cup
                     {<<normalize(args[s].student_id), args[s].position>>}
    /\ UNCHANGED <<nextId, adminVars>>

\* The call dies between the INSERT and the UPDATE (the process is killed,
\* the statement raises): the connection goes and SQLite rolls back.
vote_interrupted(s) ==
    /\ pc[s] = "update"
    /\ writer = s
    /\ writer' = NoOne
    /\ tx' = NoTx
    /\ Return(s, "Interrupted")
    /\ UNCHANGED <<volunteers, candidates, votes, nextId, adminVars, session,
                   accepted>>

vote_for_candidate(s) ==
    \/ \E position \in positions, c \in candidates : vote_select(s, position, c)
    \/ vote_insert(s)
    \/ vote_update(s)
    \/ vote_interrupted(s)

-----------------------------------------------------------------------------
(* Administrator page *)

sessionVars == <<session, pc, args, accepted>>

\* add_volunteer: INSERT and commit; False on sqlite3.IntegrityError.
add_volunteer(raw) ==
    /\ adminPc = "idle"
    /\ writer = NoOne
    /\ IF volunteers_key_free(volunteers, normalize(raw))
       THEN /\ volunteers' = volunteers \cup {VolunteerRow(normalize(raw))}
            /\ returned' = Returned(Admin, "add_volunteer", "True")
       ELSE /\ volunteers' = volunteers
            /\ returned' = Returned(Admin, "add_volunteer", "False")
    /\ UNCHANGED <<candidates, votes, nextId, writer, tx, adminVars,
                   sessionVars>>

\* add_candidate: INSERT and commit; id is the AUTOINCREMENT value, and
\* pos2 "None" is stored as NULL.
add_candidate(pos1, pos2) ==
    /\ adminPc = "idle"
    /\ writer = NoOne
    /\ nextId <= MaxCandidates
    /\ candidates' = candidates \cup {CandidateRow(nextId, pos1, pos2)}
    /\ nextId' = nextId + 1
    /\ returned' = Returned(Admin, "add_candidate", "None")
    /\ UNCHANGED <<volunteers, votes, writer, tx, adminVars, sessionVars>>

\* delete_candidate of a candidate picked from get_candidates(): DELETE and
\* commit.
delete_candidate(cid) ==
    /\ adminPc = "idle"
    /\ writer = NoOne
    /\ cid \in { c.id : c \in candidates }
    /\ candidates' = delete_candidate_row(candidates, cid)
    /\ returned' = Returned(Admin, "delete_candidate", "None")
    /\ UNCHANGED <<volunteers, votes, nextId, writer, tx, adminVars,
                   sessionVars>>

\* delete_volunteer of a volunteer picked from get_volunteers_df(): the
\* DELETE FROM votes, which takes the write lock.
delete_volunteer_votes(sid) ==
    /\ adminPc = "idle"
    /\ writer = NoOne
    /\ sid \in { v.student_id : v \in volunteers }
    /\ writer' = Admin
    /\ tx' = [volunteers |-> volunteers,
              candidates |-> candidates,
              votes |-> delete_votes_of(votes, normalize(sid))]
    /\ adminPc' = "delete_row"
    /\ adminArg' = sid
    /\ returned' = NoReturn
    /\ UNCHANGED <<volunteers, candidates, votes, nextId, sessionVars>>

\* The DELETE FROM volunteers and conn.commit().
delete_volunteer_commit ==
    /\ adminPc = "delete_row"
    /\ writer = Admin
    /\ volunteers' = delete_volunteer_row(tx.volunteers, normalize(adminArg))
    /\ candidates' = tx.candidates
    /\ votes' = tx.votes
    /\ writer' = NoOne
    /\ tx' = NoTx
    /\ adminPc' = "idle"
    /\ adminArg' = NoArgs
    /\ returned' = Returned(Admin, "delete_volunteer", "None")
    /\ accepted' = { pr \in accepted : pr[1] # normalize(adminArg) }
    /\ UNCHANGED <<nextId, session, pc, args>>

delete_volunteer ==
    \/ \E sid \in NormIds : delete_volunteer_votes(sid)
    \/ delete_volunteer_commit

-----------------------------------------------------------------------------
(* Specifications *)

InputPos2 == {NoPosition}

VolunteerPage ==
    \/ \E s \in Sessions, raw \in InputIds : volunteer_login(s, raw)
    \/ \E s \in Sessions : volunteer_logout(s)
    \/ \E s \in Sessions : vote_for_candidate(s)

AdminPage ==
    \/ \E raw \in InputIds : add_volunteer(raw)
    \/ \E pos1 \in positions, pos2 \in InputPos2 : add_candidate(pos1, pos2)
    \/ \E cid \in 1..MaxCandidates : delete_candidate(cid)
    \/ delete_volunteer

Next == VolunteerPage \/ AdminPage

Spec == Init /\ [][Next]_vars

\* Sequences of vote_for_candidate calls alone: the roster is in place and
\* the administrator does nothing.
InitVotes ==
    /\ volunteers = { VolunteerRow(sid) : sid \in NormIds }
    /\ \E pos1 \in positions, pos2 \in positions :
          candidates = { CandidateRow(1, pos1, NoPosition),
                         CandidateRow(2, pos2, NoPosition) }
    /\ votes = EmptyBag
    /\ nextId = 3
    /\ InitSessions

SpecVotes == InitVotes /\ [][VolunteerPage]_vars

-----------------------------------------------------------------------------
(* Steps of a call, as the claims name them *)

\* The rows of a votes table with the key (sid, position).
RowsFor(vs, sid, position) ==
    BagCardinality([v \in { r \in BagToSet(vs) :
                              r.student_id = sid /\ r.position = position }
                      |-> vs[v]])

\* Session s's call returns True in this step.
AcceptedStep(s) ==
    /\ pc[s] = "update"
    /\ returned' = Returned(s, "vote_for_candidate", "True")

\* The row the call of session s inserts.
CallRow(s) ==
    VoteRow(normalize(args[s].student_id), args[s].position,
            args[s].candidate_id)

-----------------------------------------------------------------------------
(* Claims *)

\* C1: in every reachable state the votes table holds at most one row for
\* any (student_id, position) pair.
C1_AtMostOneRowPerPair ==
    \A v \in BagToSet(votes) : RowsFor(votes, v.student_id, v.position) <= 1

\* C1, its case: two calls raced for one pair, one row is stored and the
\* other call's INSERT was refused.
C1_Witness ==
    /\ returned.result = "IntegrityError"
    /\ votes # EmptyBag

\* C4: of two concurrent calls for one (volunteer, position) pair at most
\* one returns True, and the call that passed its check and then finds the
\* pair taken returns False (AlreadyVoted), not an unhandled error.
C4_RaceLoserReturnsFalse ==
    [][\A s \in Sessions :
         /\ AcceptedStep(s) =>
              <<normalize(args[s].student_id), args[s].position>> \notin accepted
         /\ (pc[s] = "insert" /\ pc'[s] = "idle") =>
              returned' = Returned(s, "vote_for_candidate", "False")]_vars

\* C10: in every reachable state every votes row has a student_id that is
\* in the volunteers table.
C10_VotesReferToVolunteers ==
    \A v \in BagToSet(votes) :
        \E vol \in volunteers : vol.student_id = v.student_id

C3_AcceptedAddsOneRowAndOneTally ==
    [][\A s \in Sessions :
         AcceptedStep(s) =>
           /\ RowsFor(votes, CallRow(s).student_id, CallRow(s).position) = 0
           /\ votes' = votes (+) SetToBag({CallRow(s)})
           /\ \E c \in candidates :
                /\ c.id = args[s].candidate_id
                /\ candidates' = (candidates \ {c}) \cup
                                   {[c EXCEPT !.votes = c.votes + 1]}]_vars

\* C5: no step of a call commits one half of a vote: the committed votes
\* table gains the call's row in a step exactly when the committed tally of
\* the call's candidate goes up by one in that step.
C5_RowAndTallyTogether ==
    [][\A s \in Sessions :
         (pc[s] # "idle" /\ pc'[s] # pc[s]) =>
           ( (votes' # votes)
             <=> \E c \in candidates :
                    /\ c.id = args[s].candidate_id
                    /\ [c EXCEPT !.votes = c.votes + 1] \in candidates' )]_vars

\* C6: a logged-in volunteer is offered the ballot for every position that
\* has a candidate and for which the votes table holds no row of theirs;
\* the cached voted flag does not decide it.
C6_BallotDecidedByVotesTable ==
    \A s \in Sessions, position \in positions :
        ( /\ session[s].volunteer_logged_in
          /\ candidates_for_pos(position) # {}
          /\ RowsFor(votes, session[s].volunteer_info.student_id, position) = 0 )
        => ballot_shown(s)

\* C7: a call returns True only when its candidate is in the candidates
\* table and its position1 or position2 is the voted position.
C7_AcceptedOnlyForEligibleCandidate ==
    [][\A s \in Sessions :
         AcceptedStep(s) =>
           \E c \in candidates :
              /\ c.id = args[s].candidate_id
              /\ \/ c.position1 = args[s].position
                 \/ c.position2 = args[s].position]_vars

\* C8: delete_volunteer commits once; that commit removes the volunteer's
\* row and all of the volunteer's votes rows and nothing else: the
\* candidates table with its tallies and everyone else's rows stay.
C8_DeleteVolunteerFrame ==
    [][/\ (adminPc = "idle" /\ adminPc' # "idle") =>
            /\ volunteers' = volunteers
            /\ votes' = votes
            /\ candidates' = candidates
       /\ (adminPc # "idle" /\ adminPc' = "idle") =>
            /\ volunteers' = { v \in volunteers : v.student_id # adminArg }
            /\ BagToSet(votes') =
                 { v \in BagToSet(votes) : v.student_id # adminArg }
            /\ \A v \in BagToSet(votes') : votes'[v] = votes[v]
            /\ candidates' = candidates]_vars

\* C8, its case: delete_volunteer has just committed, rows of the volunteer
\* are gone (a tally counts more votes than the table holds rows for the
\* candidate) and a row of another volunteer is still there.
C8_Witness ==
    /\ returned.fn = "delete_volunteer"
    /\ votes # EmptyBag
    /\ \E c \in candidates :
          c.votes > Cardinality({ v \in BagToSet(votes) :
                                    v.candidate_id = c.id })

\* Two identifiers that differ at most in case and surrounding whitespace.
SameIdentifier(a, b) == strip(lower(a)) = strip(lower(b))

\* C9: add_volunteer with an identifier that is, up to case and surrounding
\* whitespace, the identifier of a volunteer in the roster returns False and
\* changes no table; the roster never holds two such volunteers.
C9_DuplicateVolunteerRefused ==
    /\ [](\A v1, v2 \in volunteers :
            SameIdentifier(v1.student_id, v2.student_id) => v1 = v2)
    /\ [][\A raw \in InputIds :
            ( /\ returned'.fn = "add_volunteer"
              /\ \E v \in volunteers : SameIdentifier(v.student_id, raw)
              /\ add_volunteer(raw) )
            => /\ returned' = Returned(Admin, "add_volunteer", "False")
               /\ volunteers' = volunteers
               /\ candidates' = candidates
               /\ votes' = votes]_vars

\* C9, its case: add_volunteer has just returned False.
C9_Witness ==
    /\ returned = Returned(Admin, "add_volunteer", "False")
    /\ volunteers # {}

=============================================================================
